---- MODULE Spec2Model ----
(***************************************************************************)
(* npm-git-hooks: the multi-package task dispatcher of src/main.js         *)
(* (run(operation)), with the collaborators it calls: lib/git.js (second   *)
(* definition set, the one exporting getCommitMessage), lib/handlers.js    *)
(* (first definition set, the one whose errorCallback takes one error) and *)
(* lib/utils.js (buildFilePattern).                                        *)
(*                                                                         *)
(* JavaScript strings that the code inspects character by character        *)
(* (paths, folder names, extensions) are sequences of one-character        *)
(* strings.  An optional JavaScript value is a sequence of length <= 1:    *)
(* <<>> is undefined, <<v>> is the value v.                                *)
(***************************************************************************)
EXTENDS Integers, Sequences, FiniteSets, TLC

(***************************************************************************)
(* Bounds of the model.                                                    *)
(***************************************************************************)
MaxPkgs == 2
MaxTasks == 2

None == <<>>
Some(v) == <<v>>
IsSome(o) == Len(o) > 0
Val(o) == o[1]

(***************************************************************************)
(* Regular expressions, as JavaScript's RegExp evaluates the patterns that *)
(* buildFilePattern produces.  A pattern is a tree:                        *)
(*   chr c | lit c | dot | ws | plus r | opt r | seq <<r...>> | alt <<r...>> *)
(* chr compares under the 'i' flag, lit without it.                        *)
(***************************************************************************)
Chr(c) == [t |-> "chr", c |-> c]
Lit(c) == [t |-> "lit", c |-> c]
Dot == [t |-> "dot"]
Ws == [t |-> "ws"]
Plus(r) == [t |-> "plus", r |-> r]
Opt(r) == [t |-> "opt", r |-> r]
Cat(rs) == [t |-> "seq", rs |-> rs]
Alt(rs) == [t |-> "alt", rs |-> rs]

\* the 'i' flag: letters compare after case folding
Fold(c) ==
  CASE c = "A" -> "a"
    [] c = "B" -> "b"
    [] c = "J" -> "j"
    [] c = "S" -> "s"
    [] OTHER -> c

Whitespace == {" ", "\t"}

RECURSIVE Ends(_, _, _)
RECURSIVE SeqEnds(_, _, _, _)
RECURSIVE PlusEnds(_, _, _)

\* the positions at which a match of re that starts after position i can end
Ends(re, s, i) ==
  CASE re.t = "chr" -> IF i < Len(s) /\ Fold(s[i + 1]) = Fold(re.c) THEN {i + 1} ELSE {}
    [] re.t = "lit" -> IF i < Len(s) /\ s[i + 1] = re.c THEN {i + 1} ELSE {}
    [] re.t = "dot" -> IF i < Len(s) /\ s[i + 1] # "\n" THEN {i + 1} ELSE {}
    [] re.t = "ws" -> IF i < Len(s) /\ s[i + 1] \in Whitespace THEN {i + 1} ELSE {}
    [] re.t = "plus" -> PlusEnds(re.r, s, Ends(re.r, s, i))
    [] re.t = "opt" -> {i} \cup Ends(re.r, s, i)
    [] re.t = "seq" -> SeqEnds(re.rs, 1, s, {i})
    [] re.t = "alt" -> UNION {Ends(re.rs[k], s, i) : k \in DOMAIN re.rs}

SeqEnds(rs, k, s, from) ==
  IF k > Len(rs) THEN from
  ELSE SeqEnds(rs, k + 1, s, UNION {Ends(rs[k], s, j) : j \in from})

PlusEnds(r, s, cur) ==
  LET more == cur \cup UNION {Ends(r, s, j) : j \in cur}
  IN IF more = cur THEN cur ELSE PlusEnds(r, s, more)

\* RegExp.prototype.exec without anchors: a match may start anywhere
RegExec(re, s) == \E i \in 0..Len(s) : Ends(re, s, i) # {}

\* the pattern a literal piece of source text denotes: '.' is the wildcard,
\* every other character of the model's alphabet stands for itself
RECURSIVE Source(_)
Source(str) ==
  IF Len(str) = 0 THEN <<>>
  ELSE <<IF Head(str) = "." THEN Dot ELSE Chr(Head(str))>> \o Source(Tail(str))

\* new RegExp(str) without flags, for the patterns a "commit-msg" entry
\* holds: '.' is the wildcard, a '+' repeats the atom before it, every other
\* character stands for itself and compares exactly
RECURSIVE NewRegExp(_)
NewRegExp(str) ==
  IF Len(str) = 0 THEN <<>>
  ELSE LET atom == IF Head(str) = "." THEN Dot ELSE Lit(Head(str))
       IN IF Len(str) >= 2 /\ str[2] = "+"
          THEN <<Plus(atom)>> \o NewRegExp(SubSeq(str, 3, Len(str)))
          ELSE <<atom>> \o NewRegExp(Tail(str))

(***************************************************************************)
(* lib/utils.js: buildFilePattern(config)                                  *)
(***************************************************************************)
\* f[f.length - 1] === '/' ? f : `${f}/`, then .replace(/^\.\//, '')
NormalizeFolder(f) ==
  LET slashed == IF Len(f) > 0 /\ f[Len(f)] = "/" THEN f ELSE f \o <<"/">>
  IN IF Len(slashed) >= 2 /\ slashed[1] = "." /\ slashed[2] = "/"
     THEN SubSeq(slashed, 3, Len(slashed))
     ELSE slashed

\* fileTypes.join(`\\s+\\||`): every extension but the last is followed by
\* \s+\| ; an empty list joins to the empty pattern
FileTypesAlt(fileTypes) ==
  IF Len(fileTypes) = 0 THEN Cat(<<>>)
  ELSE Alt([k \in 1..Len(fileTypes) |->
         IF k < Len(fileTypes)
         THEN Cat(Source(fileTypes[k]) \o <<Plus(Ws), Chr("|")>>)
         ELSE Cat(Source(fileTypes[k]))])

FoldersAlt(folders) ==
  IF Len(folders) = 0 THEN Cat(<<>>)
  ELSE Alt([k \in 1..Len(folders) |-> Cat(Source(NormalizeFolder(folders[k])))])

buildFilePattern(config) ==
  LET rel == config.pkg.relative
      relative == IF Len(rel) > 0 /\ rel[Len(rel)] = "/"
                  THEN SubSeq(rel, 1, Len(rel) - 1) ELSE rel
      prefix == Opt(Cat(<<Plus(Dot)>> \o Source(relative) \o <<Chr("/")>>))
      hasR == IsSome(config.restrictions)
      r == Val(config.restrictions)
      folders == IF hasR /\ IsSome(r.folders) THEN <<FoldersAlt(Val(r.folders))>> ELSE <<>>
      done == hasR /\ IsSome(r.fileTypes)
      types == IF done
               THEN <<Plus(Dot), Chr("."), FileTypesAlt(Val(r.fileTypes))>>
               ELSE <<>>
      rest == IF done THEN <<>> ELSE <<Plus(Dot)>>
  IN Cat(<<prefix>> \o folders \o types \o rest)

(***************************************************************************)
(* Paths: path.resolve, path.basename, String.prototype.replace/trim and   *)
(* Array.prototype.indexOf on the values the dispatcher hands them.        *)
(***************************************************************************)
\* path.resolve(dir) of an absolute path: the path without its trailing separator
Resolve(dir) ==
  IF Len(dir) > 1 /\ dir[Len(dir)] = "/" THEN SubSeq(dir, 1, Len(dir) - 1) ELSE dir

RECURSIVE Basename(_)
Basename(p) ==
  IF \E k \in 1..Len(p) : p[k] = "/"
  THEN Basename(Tail(p))
  ELSE p

IsPrefixAt(pat, s, k) ==
  /\ k + Len(pat) - 1 <= Len(s)
  /\ \A j \in 1..Len(pat) : s[k + j - 1] = pat[j]

\* s.replace(pat, rep) with a string pattern: the first occurrence only
Replace(s, pat, rep) ==
  LET hits == {k \in 1..Len(s) : IsPrefixAt(pat, s, k)}
  IN IF hits = {} THEN s
     ELSE LET k == CHOOSE h \in hits : \A g \in hits : h <= g
          IN SubSeq(s, 1, k - 1) \o rep \o SubSeq(s, k + Len(pat), Len(s))

RECURSIVE TrimLeft(_)
TrimLeft(s) ==
  IF Len(s) > 0 /\ Head(s) \in Whitespace THEN TrimLeft(Tail(s)) ELSE s

RECURSIVE TrimRight(_)
TrimRight(s) ==
  IF Len(s) > 0 /\ s[Len(s)] \in Whitespace THEN TrimRight(SubSeq(s, 1, Len(s) - 1)) ELSE s

Trim(s) == TrimRight(TrimLeft(s))

\* Array.prototype.indexOf, 0-based, -1 when absent
IndexOf(list, x) ==
  IF \E k \in 1..Len(list) : list[k] = x
  THEN (CHOOSE k \in 1..Len(list) : list[k] = x /\ \A j \in 1..(k - 1) : list[j] # x) - 1
  ELSE 0 - 1

(***************************************************************************)
(* The inputs of one hook invocation: the repository on disk (the          *)
(* directories utils.scandir reports, each with its package.json), the git *)
(* state, the git user and the hook event.                                 *)
(***************************************************************************)
HookEvents == {"post-checkout", "post-commit", "post-merge", "pre-commit", "pre-push"}

\* git config user.name, read once when src/main.js is loaded
user == "dev"

Root == <<"/", "r">>
Letters == <<"a", "b", "c", "d">>

\* the directories scandir returns, each ending with the separator
DirOf(i) == IF i = 1 THEN Root \o <<"/">> ELSE Root \o <<"/", Letters[i - 1], "/">>

Js == <<"j", "s">>

TaskLists == {[k \in 1..n |-> k] : n \in 0..MaxTasks}

JsOnly == Some([fileTypes |-> Some(<<Js>>), folders |-> None])

\* the "npm-git-hooks" section of a package.json; hook is the entry of the
\* dispatched event, config[operation], commitMsg the "commit-msg" entry
Sections ==
  [enabled : {None, Some(TRUE), Some(FALSE)},
   skipUsers : {Some(<<"jenkins">>), Some(<<"jenkins", user>>)},
   restrictions : {None},
   commitMsg : {None},
   hook : {Some(<<1>>)}]
  \cup
  [enabled : {Some(TRUE)},
   skipUsers : {Some(<<"jenkins">>)},
   restrictions : {None},
   commitMsg : {None},
   hook : {None} \cup {Some(l) : l \in TaskLists}]
  \cup
  [enabled : {Some(TRUE)},
   skipUsers : {Some(<<"jenkins">>), None},
   restrictions : {JsOnly},
   commitMsg : {None},
   hook : {Some(<<1>>)}]

\* a package.json: with or without the section
Manifests == {None} \cup {Some(c) : c \in Sections}

Repos == UNION {[1..n -> Manifests] : n \in 1..MaxPkgs}

FileA == <<"a", "/", "x", ".", "j", "s">>
FileB == <<"b", "/", "y", ".", "m", "d">>
\* lines of `git diff --stat --cached`
StatA == <<" ", "a", "/", "x", ".", "j", "s", " ", "|", " ", "2">>
StatB == <<" ", "b", "/", "y", ".", "m", "d", " ", "|", " ", "1">>

\* the git state a run reads: the index (staged), whether the branch tracks
\* an upstream, how many commits `git log <remote>/<branch>..HEAD` (ahead) and
\* `git log --branches --remotes --simplify-by-decoration` (decorated) list,
\* the lines of `git diff --stat --cached <ref>`, and the text of
\* .git/COMMIT_EDITMSG when that file exists
BaseGit ==
  [staged |-> <<FileA>>, upstream |-> TRUE, ahead |-> 1, decorated |-> 1,
   diff |-> <<StatA>>, message |-> Some(<<"f", "i", "x">>)]

IndexStates == {[BaseGit EXCEPT !.staged = f] : f \in {<<>>, <<FileA>>, <<FileB>>}}

PushStates ==
  { BaseGit,
    [BaseGit EXCEPT !.diff = <<>>],
    [BaseGit EXCEPT !.ahead = 0, !.diff = <<>>],
    [BaseGit EXCEPT !.upstream = FALSE, !.ahead = 0, !.diff = <<StatB>>],
    [BaseGit EXCEPT !.upstream = FALSE, !.ahead = 0, !.decorated = 0, !.diff = <<>>] }

\* the git states tried with each event: those that differ in what the event reads
GitStates(op) ==
  IF op = "pre-commit" THEN IndexStates
  ELSE IF op = "pre-push" THEN PushStates
  ELSE {BaseGit, [BaseGit EXCEPT !.staged = <<>>, !.ahead = 0, !.diff = <<>>]}

(***************************************************************************)
(* State of one process running run(operation) of src/main.js.             *)
(***************************************************************************)
VARIABLES
  operation,  \* the hook event the entry point passes to run
  repo,       \* repo[i]: the package.json found in DirOf(i)
  git,        \* the git state the collaborator reads
  pc,         \* where run is: "find", "map", "skip", "match", "forEach",
              \* "drain" (the promise queue's first turn), "loop", "exit"
  idx,        \* position of the array pass in progress
  input,      \* the array the pass in progress iterates
  configs,    \* the array the pass in progress has built so far
  chains,     \* chains[c]: the Promise.each of configs[c] and its tasks
  cwd,        \* process.cwd()
  exitCode,   \* the process's exit code, meaningful once pc = "exit"
  fatal,      \* what ended the process: "none" while it runs or ends normally
  console,    \* what was printed: a set of [kind, pkg]
  arg,        \* the arguments of a library function called on its own
  ret         \* what that call has returned or built so far

vars == <<operation, repo, git, pc, idx, input, configs, chains, cwd, exitCode,
          fatal, console, arg, ret>>

Init ==
  /\ operation \in HookEvents
  /\ repo \in Repos
  /\ git \in GitStates(operation)
  /\ pc = "find"
  /\ idx = 1
  /\ input = <<>>
  /\ configs = <<>>
  /\ chains = <<>>
  /\ cwd = Resolve(DirOf(1))
  /\ exitCode = 0
  /\ fatal = "none"
  /\ console = {}
  /\ arg = <<>>
  /\ ret = <<>>

Say(kind, name) == console' = console \cup {[kind |-> kind, pkg |-> name]}

\* an exception leaves run(operation) uncaught: node prints it and exits 1
Uncaught(error, name) ==
  /\ pc' = "exit"
  /\ exitCode' = 1
  /\ fatal' = error
  /\ Say(error, name)

\* process.exit(code)
ProcessExit(code, error, name) ==
  /\ pc' = "exit"
  /\ exitCode' = code
  /\ fatal' = error
  /\ Say(error, name)

\* the end of one step of an Array.prototype.map / filter pass; after the
\* last element the next pass starts, and passes over an empty array do nothing
NextPass(result, next) ==
  IF idx = Len(input)
  THEN /\ pc' = IF Len(result) = 0 THEN "loop" ELSE next
       /\ idx' = 1
       /\ input' = result
       /\ configs' = <<>>
  ELSE /\ pc' = pc
       /\ idx' = idx + 1
       /\ input' = input
       /\ configs' = result

(***************************************************************************)
(* src/main.js: findAllPackages()                                          *)
(***************************************************************************)
Package(dir) ==
  LET absolute == Resolve(dir)
  IN [name |-> Basename(absolute),
      absolute |-> absolute,
      relative |-> Replace(absolute, Root, <<".">>)]

findAllPackages ==
  /\ pc = "find"
  /\ input' = [i \in 1..Len(repo) |-> Package(DirOf(i))]
  /\ pc' = "map"
  /\ UNCHANGED <<arg, ret>>
  /\ UNCHANGED <<operation, repo, git, idx, configs, chains, cwd, exitCode, fatal, console>>

(***************************************************************************)
(* src/main.js: mapPackageConfig(pkg), one element of .map(mapPackageConfig)*)
(***************************************************************************)
\* a mapPackageConfig that takes an omitted "enabled" for false
mapPackageConfigOptIn(pkg, json) ==
  IF ~IsSome(json)
  THEN [throws |-> "NoConfigError", config |-> <<>>]
  ELSE [throws |-> "none",
        config |-> [pkg |-> pkg,
                    enabled |-> IF IsSome(Val(json).enabled)
                                THEN Val(Val(json).enabled) ELSE FALSE,
                    skipUsers |-> Val(json).skipUsers,
                    restrictions |-> Val(json).restrictions,
                    commitMsg |-> Val(json).commitMsg,
                    hook |-> Val(json).hook]]

\* throws NoConfigError when package.json has no "npm-git-hooks" section
mapPackageConfig(pkg, json) ==
  IF ~IsSome(json)
  THEN [throws |-> "NoConfigError", config |-> <<>>]
  ELSE [throws |-> "none",
        config |-> [pkg |-> pkg,
                    enabled |-> IF IsSome(Val(json).enabled)
                                THEN Val(Val(json).enabled) ELSE TRUE,
                    skipUsers |-> Val(json).skipUsers,
                    restrictions |-> Val(json).restrictions,
                    commitMsg |-> Val(json).commitMsg,
                    hook |-> Val(json).hook]]

MapPackageConfig ==
  /\ pc = "map"
  /\ LET r == mapPackageConfig(input[idx], repo[idx])
     IN IF r.throws # "none"
        THEN /\ Uncaught(r.throws, input[idx].name)
             /\ UNCHANGED <<idx, input, configs>>
        ELSE /\ NextPass(Append(configs, r.config), "skip")
             /\ UNCHANGED <<exitCode, fatal, console>>
  /\ UNCHANGED <<arg, ret>>
  /\ UNCHANGED <<operation, repo, git, chains, cwd>>

(***************************************************************************)
(* src/main.js: skipPackage(config), one element of .filter(skipPackage)   *)
(***************************************************************************)
\* skipPackage without its `else if (!config.enabled)` branch
skipPackageIgnoresEnabled(config) ==
  IF ~IsSome(config.skipUsers)
  THEN "TypeError"
  ELSE IF IndexOf(Val(config.skipUsers), user) >= 0
  THEN "user"
  ELSE "keep"

\* skipPackage without its skip-users branch
skipPackageIgnoresUsers(config) ==
  IF ~IsSome(config.skipUsers)
  THEN "TypeError"
  ELSE IF ~config.enabled
  THEN "disabled"
  ELSE "keep"

\* "TypeError" when config['skip-users'] is undefined (.indexOf of undefined),
\* else which branch returns: "user", "disabled" (both false) or "keep" (true)
skipPackage(config) ==
  IF ~IsSome(config.skipUsers)
  THEN "TypeError"
  ELSE IF IndexOf(Val(config.skipUsers), user) >= 0
  THEN "user"
  ELSE IF ~config.enabled
  THEN "disabled"
  ELSE "keep"

SkipPackage ==
  /\ pc = "skip"
  /\ LET config == input[idx]
         r == skipPackage(config)
     IN IF r = "TypeError"
        THEN /\ Uncaught("TypeError", config.pkg.name)
             /\ UNCHANGED <<idx, input, configs>>
        ELSE IF r = "keep"
        THEN /\ NextPass(Append(configs, config), "match")
             /\ UNCHANGED <<exitCode, fatal, console>>
        ELSE /\ Say(IF r = "user" THEN "SKIP user" ELSE "SKIP disabled", config.pkg.name)
             /\ NextPass(configs, "match")
             /\ UNCHANGED <<exitCode, fatal>>
  /\ UNCHANGED <<arg, ret>>
  /\ UNCHANGED <<operation, repo, git, chains, cwd>>

(***************************************************************************)
(* lib/git.js: getStagedFiles(), getCommitedFiles()                        *)
(***************************************************************************)
\* throws NoStagedFileError when `git diff --cached --name-only` prints nothing
getStagedFiles ==
  IF Len(git.staged) = 0
  THEN [throws |-> TRUE, value |-> <<>>]
  ELSE [throws |-> FALSE, value |-> git.staged]

\* the NoCommitsError it throws is caught by its own catch: process.exit(1)
getCommitedFiles ==
  LET commits == IF git.upstream THEN git.ahead ELSE git.decorated
  IN IF commits = 0
     THEN [exits |-> TRUE, value |-> <<>>]
     ELSE [exits |-> FALSE, value |-> git.diff]

(***************************************************************************)
(* src/main.js: fileMatch(config, operation), one element of the last      *)
(* .filter                                                                 *)
(***************************************************************************)
\* a fileMatch that builds and applies the pattern for every event
FileSensitiveAlways(op) == TRUE

FileSensitive(op) == op = "pre-push" \/ op = "pre-commit"

\* a fileMatch that lets a package through when the file list could not be read
fileMatchKeepsOnError(config, op) ==
  IF FileSensitive(op)
  THEN LET filePattern == buildFilePattern(config)
           staged == getStagedFiles
           pushed == getCommitedFiles
           exits == op = "pre-push" /\ pushed.exits
           caught == op = "pre-commit" /\ staged.throws
           fileList == IF op = "pre-commit" THEN staged.value
                       ELSE IF op = "pre-push" THEN pushed.value ELSE <<>>
       IN [exits |-> exits,
           caught |-> caught,
           chdir |-> op = "pre-commit" \/ (op = "pre-push" /\ ~exits),
           keep |-> caught \/ \E k \in 1..Len(fileList) :
                                 RegExec(filePattern, Trim(fileList[k]))]
  ELSE [exits |-> FALSE, caught |-> FALSE, chdir |-> FALSE, keep |-> TRUE]

\* what one call does: exits (process.exit inside getCommitedFiles), caught
\* (the catch block ran), keep (the value returned)
fileMatch(config, op) ==
  IF FileSensitive(op)
  THEN LET filePattern == buildFilePattern(config)
           staged == getStagedFiles
           pushed == getCommitedFiles
           exits == op = "pre-push" /\ pushed.exits
           caught == op = "pre-commit" /\ staged.throws
           fileList == IF op = "pre-commit"
                       THEN (IF caught THEN <<>> ELSE staged.value)
                       ELSE IF op = "pre-push" THEN pushed.value ELSE <<>>
       IN [exits |-> exits,
           caught |-> caught,
           chdir |-> op = "pre-commit" \/ (op = "pre-push" /\ ~exits),
           keep |-> \E k \in 1..Len(fileList) : RegExec(filePattern, Trim(fileList[k]))]
  ELSE [exits |-> FALSE, caught |-> FALSE, chdir |-> FALSE, keep |-> TRUE]

FileMatch ==
  /\ pc = "match"
  /\ LET config == input[idx]
         m == fileMatch(config, operation)
     IN IF m.exits
        THEN /\ ProcessExit(1, "NoCommitsError", config.pkg.name)
             /\ UNCHANGED <<idx, input, configs, cwd>>
        ELSE /\ cwd' = IF m.chdir THEN Root ELSE cwd
             /\ IF m.caught
                THEN Say("NoStagedFileError", config.pkg.name)
                ELSE UNCHANGED console
             /\ NextPass(IF m.keep THEN Append(configs, config) ELSE configs, "forEach")
             /\ UNCHANGED <<exitCode, fatal>>
  /\ UNCHANGED <<arg, ret>>
  /\ UNCHANGED <<operation, repo, git, chains>>

(***************************************************************************)
(* lib/handlers.js (first definition set): what the module exports, and    *)
(* errorCallback(e)                                                        *)
(***************************************************************************)
HandlersExports ==
  {"NoConfigError", "NoFileError", "RunTaskError", "InstallError",
   "PathNotFoundError", "NoStreamError", "NoCommitsError", "NoStagedFileError",
   "errorCallback", "successCallback"}

\* the exit code errorCallback(e) ends the process with; None when it only logs
errorCallback(e) ==
  IF e \in {"NoConfigError", "NoFileError", "NoCommitsError"}
  THEN None
  ELSE IF e = "RunTaskError"
  THEN Some(1)
  ELSE Some(1)

(***************************************************************************)
(* src/main.js: runTasks(config, operation), one element of                *)
(* configs.forEach.  The result is the promise the .then/.catch hang on.   *)
(***************************************************************************)
Waiting == [st |-> "waiting", code |-> 0, dir |-> <<>>]

\* lib/git.js: getCommitMessage(): the text of .git/COMMIT_EDITMSG, '' when
\* there is no such file
getCommitMessage == IF IsSome(git.message) THEN Val(git.message) ELSE <<>>

\* src/main.js: checkCommitMsg(config): the promise it returns, as the chain
\* of a package without tasks; an absent or empty "commit-msg" is falsy
checkCommitMsg(config) ==
  LET set == IsSome(config.commitMsg) /\ Len(Val(config.commitMsg)) > 0
      passes == RegExec(Cat(NewRegExp(Val(config.commitMsg))), getCommitMessage)
  IN IF set /\ ~passes
     THEN [config |-> config, tasks |-> <<>>,
           promise |-> "rejected", error |-> "RunTaskError", handled |-> FALSE]
     ELSE [config |-> config, tasks |-> <<>>,
           promise |-> "fulfilled", error |-> "none", handled |-> FALSE]

\* throws: the exception `new handlers.NoTaskError` raises when the handlers
\* module exports no such constructor
runTasks(config) ==
  LET tasks == config.hook
  IN IF operation = "commit-msg"
     THEN [throws |-> "none", chain |-> checkCommitMsg(config)]
     ELSE IF IsSome(tasks) /\ Len(Val(tasks)) > 0
     THEN [throws |-> "none",
           chain |-> [config |-> config,
                      tasks |-> [k \in 1..Len(Val(tasks)) |-> Waiting],
                      promise |-> "pending", error |-> "none", handled |-> FALSE]]
     ELSE IF "NoTaskError" \in HandlersExports
     THEN [throws |-> "none",
           chain |-> [config |-> config, tasks |-> <<>>,
                      promise |-> "rejected", error |-> "NoTaskError", handled |-> FALSE]]
     ELSE [throws |-> "TypeError NoTaskError",
           chain |-> <<>>]

ForEachRunTasks ==
  /\ pc = "forEach"
  /\ LET config == input[idx]
         r == runTasks(config)
     IN IF r.throws # "none"
        THEN /\ Uncaught(r.throws, config.pkg.name)
             /\ UNCHANGED <<idx, chains>>
        ELSE /\ chains' = Append(chains, r.chain)
             /\ IF idx = Len(input)
                THEN pc' = "drain" /\ idx' = 1
                ELSE pc' = pc /\ idx' = idx + 1
             /\ UNCHANGED <<exitCode, fatal, console>>
  /\ UNCHANGED <<arg, ret>>
  /\ UNCHANGED <<operation, repo, git, input, configs, cwd>>

(***************************************************************************)
(* The event loop after run returns.  The promise queue's first turn       *)
(* ("drain") serves the chains in the order forEach created them; child    *)
(* processes report their exit only in later turns ("loop").               *)
(***************************************************************************)
\* a promise queue that is served while forEach is still creating chains
TurnInsideForEach(c) ==
  /\ pc \in {"forEach", "drain", "loop"}
  /\ c \in 1..Len(chains)
  /\ pc = "drain" => c = idx

Turn(c) ==
  /\ pc \in {"drain", "loop"}
  /\ c \in 1..Len(chains)
  /\ pc = "drain" => c = idx

AfterTurn ==
  IF pc = "drain"
  THEN IF idx = Len(chains)
       THEN pc' = "loop" /\ idx' = 1
       ELSE pc' = pc /\ idx' = idx + 1
  ELSE UNCHANGED <<pc, idx>>

\* an iteration that does not wait for the previous task's promise
EachNextEager(tasks) ==
  IF \E k \in 1..Len(tasks) : tasks[k].st = "waiting"
  THEN CHOOSE k \in 1..Len(tasks) :
         /\ tasks[k].st = "waiting"
         /\ \A j \in 1..(k - 1) : tasks[j].st # "waiting"
  ELSE 0

\* bluebird Promise.each(tasks, fn): the index of the task fn is called with
\* next, 0 when there is none: the previous call's promise must have resolved
EachNext(tasks) ==
  IF \E k \in 1..Len(tasks) : tasks[k].st = "running" \/ (tasks[k].st = "exited" /\ tasks[k].code # 0)
  THEN 0
  ELSE IF \E k \in 1..Len(tasks) : tasks[k].st = "waiting"
  THEN CHOOSE k \in 1..Len(tasks) :
         /\ tasks[k].st = "waiting"
         /\ \A j \in 1..(k - 1) : tasks[j].st # "waiting"
  ELSE 0

\* a runTask that starts the child without process.chdir
RunTaskInheritsCwd(c) ==
  /\ Turn(c)
  /\ chains[c].promise = "pending"
  /\ LET k == EachNext(chains[c].tasks)
     IN /\ k # 0
        /\ cwd' = cwd
        /\ chains' = [chains EXCEPT ![c].tasks[k] = [st |-> "running", code |-> 0, dir |-> cwd']]
  /\ AfterTurn
  /\ UNCHANGED <<arg, ret>>
  /\ UNCHANGED <<operation, repo, git, input, configs, exitCode, fatal, console>>

\* src/main.js: runTask(task, pkg, operation) up to shell.exec's return:
\* process.chdir(pkg.absolute), then the child is started in process.cwd()
RunTask(c) ==
  /\ Turn(c)
  /\ chains[c].promise = "pending"
  /\ LET k == EachNext(chains[c].tasks)
         dir == chains[c].config.pkg.absolute
     IN /\ k # 0
        /\ cwd' = dir
        /\ chains' = [chains EXCEPT ![c].tasks[k] = [st |-> "running", code |-> 0, dir |-> cwd']]
  /\ AfterTurn
  /\ UNCHANGED <<arg, ret>>
  /\ UNCHANGED <<operation, repo, git, input, configs, exitCode, fatal, console>>

ExitCodes == {0, 1}

\* src/main.js: the callback runTask gives shell.exec, called with the exit code
ExecCallback(c, code) ==
  /\ pc = "loop"
  /\ c \in 1..Len(chains)
  /\ \E k \in 1..Len(chains[c].tasks) :
       /\ chains[c].tasks[k].st = "running"
       /\ chains' = [chains EXCEPT
            ![c].tasks[k].st = "exited",
            ![c].tasks[k].code = code,
            ![c].promise = IF code = 0
                           THEN (IF k = Len(chains[c].tasks) THEN "fulfilled" ELSE @)
                           ELSE "rejected",
            ![c].error = IF code = 0 THEN @ ELSE "RunTaskError"]
  /\ UNCHANGED <<arg, ret>>
  /\ UNCHANGED <<operation, repo, git, pc, idx, input, configs, cwd, exitCode, fatal, console>>

\* src/main.js: .then(() => handlers.successCallback(config.pkg, operation))
SuccessCallback(c) ==
  /\ Turn(c)
  /\ chains[c].promise = "fulfilled"
  /\ ~chains[c].handled
  /\ chains' = [chains EXCEPT ![c].handled = TRUE]
  /\ Say("SUCCESS", chains[c].config.pkg.name)
  /\ AfterTurn
  /\ UNCHANGED <<arg, ret>>
  /\ UNCHANGED <<operation, repo, git, input, configs, cwd, exitCode, fatal>>

\* src/main.js: .catch(handlers.errorCallback)
ErrorCallback(c) ==
  /\ Turn(c)
  /\ chains[c].promise = "rejected"
  /\ ~chains[c].handled
  /\ LET code == errorCallback(chains[c].error)
     IN IF IsSome(code)
        THEN /\ ProcessExit(Val(code), chains[c].error, chains[c].config.pkg.name)
             /\ UNCHANGED <<idx, chains>>
        ELSE /\ Say(chains[c].error, chains[c].config.pkg.name)
             /\ chains' = [chains EXCEPT ![c].handled = TRUE]
             /\ AfterTurn
             /\ UNCHANGED <<exitCode, fatal>>
  /\ UNCHANGED <<arg, ret>>
  /\ UNCHANGED <<operation, repo, git, input, configs, cwd>>

\* nothing is pending any more: node ends the process with code 0
ProcessEnd ==
  /\ pc = "loop"
  /\ \A c \in 1..Len(chains) : chains[c].handled
  /\ pc' = "exit"
  /\ UNCHANGED <<arg, ret>>
  /\ UNCHANGED <<operation, repo, git, idx, input, configs, chains, cwd, exitCode,
                 fatal, console>>

Next ==
  \/ findAllPackages
  \/ MapPackageConfig
  \/ SkipPackage
  \/ FileMatch
  \/ ForEachRunTasks
  \/ \E c \in 1..MaxPkgs : RunTask(c)
  \/ \E c \in 1..MaxPkgs, code \in ExitCodes : ExecCallback(c, code)
  \/ \E c \in 1..MaxPkgs : SuccessCallback(c)
  \/ \E c \in 1..MaxPkgs : ErrorCallback(c)
  \/ ProcessEnd

Spec == Init /\ [][Next]_vars

(***************************************************************************)
(* Properties of the dispatcher.                                           *)
(***************************************************************************)
\* the Package of each directory findAllPackages can return
PackageAt == [i \in 1..MaxPkgs |-> Package(DirOf(i))]
PkgName(i) == PackageAt[i].name
Chains == 1..Len(chains)
Started(c) == \E k \in 1..Len(chains[c].tasks) : chains[c].tasks[k].st # "waiting"
Running(c) == \E k \in 1..Len(chains[c].tasks) : chains[c].tasks[k].st = "running"
Failed(c) ==
  \E k \in 1..Len(chains[c].tasks) :
    chains[c].tasks[k].st = "exited" /\ chains[c].tasks[k].code # 0
Finished(c) ==
  /\ ~Running(c)
  /\ Failed(c) \/ \A k \in 1..Len(chains[c].tasks) : chains[c].tasks[k].st = "exited"
PkgStarted(name) == \E c \in Chains : chains[c].config.pkg.name = name /\ Started(c)
Printed(kind, name) == [kind |-> kind, pkg |-> name] \in console
ExitedNonZero == pc = "exit" /\ exitCode # 0
PostEvents == {"post-checkout", "post-commit", "post-merge"}

\* C1: fail-fast.  When a task of the k-th package that passed the filters
\* exits non-zero, no task of a package after k is ever launched in the run,
\* and the process ends with a non-zero exit code.
C1_FailFast ==
  /\ \A k \in Chains, j \in Chains : (k < j /\ Failed(k)) => ~Started(j)
  /\ (pc = "exit" /\ \E k \in Chains : Failed(k)) => exitCode # 0

\* C2: strictly sequential execution.  At most one task command is running,
\* and a package's task is launched only after every task of every earlier
\* package has exited.
C2_Sequential ==
  /\ Cardinality({c \in Chains : Running(c)}) <= 1
  /\ \A i \in Chains, j \in Chains : (i < j /\ Started(j)) => Finished(i)

\* C3: ordering inside one package.  A task is launched only after every
\* earlier task of its list has exited with code 0: launches follow the
\* declared order and stop at the first non-zero exit.
C3_TaskOrder ==
  \A c \in Chains : \A k \in 1..Len(chains[c].tasks) :
    chains[c].tasks[k].st # "waiting" =>
      \A h \in 1..(k - 1) :
        chains[c].tasks[h].st = "exited" /\ chains[c].tasks[h].code = 0

\* one package stopped at its failed first task while another reached its second
C3_Witness ==
  \E c \in Chains, d \in Chains :
    /\ Len(chains[c].tasks) = 2
    /\ chains[c].tasks[1].st = "exited" /\ chains[c].tasks[1].code # 0
    /\ chains[c].tasks[2].st = "waiting"
    /\ Len(chains[d].tasks) = 2
    /\ chains[d].tasks[1].st = "exited" /\ chains[d].tasks[2].st = "running"

Disabled(i) ==
  /\ IsSome(repo[i])
  /\ ~mapPackageConfig(PackageAt[i], repo[i]).config.enabled

\* C4: a package whose resolved config has enabled = false never has a task
\* launched, whatever the event and the file list.
C4_DisabledNeverRuns ==
  \A i \in 1..Len(repo) : PkgStarted(PkgName(i)) => ~Disabled(i)

\* a run that skipped a disabled package and launched another package's task
C4_Witness ==
  \E i \in 1..Len(repo) :
    /\ Disabled(i)
    /\ Printed("SKIP disabled", PkgName(i))
    /\ \E c \in Chains : Started(c)

InSkipUsers(i) ==
  /\ IsSome(repo[i])
  /\ IsSome(Val(repo[i]).skipUsers)
  /\ \E k \in 1..Len(Val(Val(repo[i]).skipUsers)) : Val(Val(repo[i]).skipUsers)[k] = user

\* C5: a package whose skip-users list contains the git user is skipped and
\* never has a task launched, whether enabled is true, false or omitted.
C5_SkipUserNeverRuns ==
  \A i \in 1..Len(repo) :
    InSkipUsers(i) =>
      /\ ~PkgStarted(PkgName(i))
      /\ \A c \in Chains : chains[c].config.pkg.name # PkgName(i)
      /\ pc \in {"match", "forEach", "drain", "loop"} => Printed("SKIP user", PkgName(i))

\* a run that skipped an enabled package for its user and launched another's task
C5_Witness ==
  \E i \in 1..Len(repo) :
    /\ InSkipUsers(i)
    /\ Val(repo[i]).enabled = Some(TRUE)
    /\ Printed("SKIP user", PkgName(i))
    /\ \E c \in Chains : Started(c)

\* C6: config isolation.  A package.json without the section is recorded as
\* NoConfig; the failure does not end the process with a non-zero code, and
\* the other packages are still processed.
C6_ConfigIsolation ==
  \A i \in 1..Len(repo) :
    ~IsSome(repo[i]) => ~(ExitedNonZero /\ fatal = "NoConfigError")

\* C7: a package that passes the filters and has an empty or absent task list
\* for the event is a non-fatal outcome: the process does not exit non-zero
\* because of it.
C7_NoTasksNonFatal ==
  ~(ExitedNonZero /\ fatal \in {"NoTaskError", "TypeError NoTaskError"})

\* C8: in a pre-push dispatch an empty commit range (NoCommits) is advisory:
\* it does not end the process with a non-zero code.
C8_NoCommitsAdvisory ==
  operation = "pre-push" => ~(ExitedNonZero /\ fatal = "NoCommitsError")

NoStagedRaised == \E m \in console : m.kind = "NoStagedFileError"

\* C9: in a pre-commit dispatch, once getStagedFiles has raised
\* NoStagedFileError, the file list counts as empty for every package: no
\* package passes the file filter, no task is launched and the process does
\* not exit non-zero.
C9_NoStagedFiles ==
  NoStagedRaised =>
    /\ operation = "pre-commit"
    /\ \A c \in Chains : ~Started(c)
    /\ pc \notin {"forEach", "drain"}
    /\ pc = "exit" => exitCode = 0

\* a finished pre-commit run over an enabled package with a task and no staged file
C9_Witness ==
  /\ NoStagedRaised
  /\ pc = "exit"
  /\ \E i \in 1..Len(repo) :
       /\ IsSome(repo[i])
       /\ skipPackage(mapPackageConfig(Package(DirOf(i)), repo[i]).config) = "keep"
       /\ Val(repo[i]).hook = Some(<<1>>)

NotSkipped(i) ==
  /\ IsSome(repo[i])
  /\ IsSome(Val(repo[i]).skipUsers)
  /\ ~InSkipUsers(i)
  /\ ~Disabled(i)

\* C10: for post-checkout, post-commit and post-merge the file filter reads
\* neither the restrictions nor a file list: every package that is not
\* skipped passes it, whatever its restrictions.
C10_PostEventsBypass ==
  operation \in PostEvents =>
    /\ ~NoStagedRaised
    /\ fatal # "NoCommitsError"
    /\ pc \in {"forEach", "drain", "loop"} =>
         \A i \in 1..Len(repo) :
           (\E k \in 1..Len(input) : input[k].pkg.name = PkgName(i)) \/ ~NotSkipped(i)

\* a post-event run that kept a package restricted to .js files although
\* nothing is staged or to be pushed
C10_Witness ==
  /\ operation \in PostEvents
  /\ pc = "forEach"
  /\ git.staged = <<>>
  /\ git.diff = <<>>
  /\ \E k \in 1..Len(input) : input[k].restrictions = JsOnly

(***************************************************************************)
(* Dispatches over packages that declare a "commit-msg" pattern, with the  *)
(* last commit message varying; the 'commit-msg' operation is the one      *)
(* runTasks hands to checkCommitMsg.                                       *)
(***************************************************************************)
MsgEvents == {"pre-commit", "pre-push", "commit-msg"}

MsgSections ==
  [enabled : {Some(TRUE)},
   skipUsers : {Some(<<"jenkins">>)},
   restrictions : {None},
   commitMsg : {None, Some(<<>>), Some(<<".", "+">>), Some(<<"f", "i", "x">>)},
   hook : {Some(l) : l \in TaskLists}]

MsgRepos == UNION {[1..n -> {Some(c) : c \in MsgSections}] : n \in 1..MaxPkgs}

MsgGitStates ==
  {[BaseGit EXCEPT !.message = m] : m \in {None, Some(<<"f", "i", "x">>), Some(<<"w", "i", "p">>)}}

InitMsg ==
  /\ operation \in MsgEvents
  /\ repo \in MsgRepos
  /\ git \in MsgGitStates
  /\ pc = "find"
  /\ idx = 1
  /\ input = <<>>
  /\ configs = <<>>
  /\ chains = <<>>
  /\ cwd = Resolve(DirOf(1))
  /\ exitCode = 0
  /\ fatal = "none"
  /\ console = {}
  /\ arg = <<>>
  /\ ret = <<>>

SpecMsg == InitMsg /\ [][Next]_vars

\* package i declares a commit-msg pattern the last commit message fails
MsgRejected(i) ==
  /\ IsSome(repo[i])
  /\ IsSome(Val(repo[i]).commitMsg)
  /\ Len(Val(Val(repo[i]).commitMsg)) > 0
  /\ ~RegExec(Cat(NewRegExp(Val(Val(repo[i]).commitMsg))), getCommitMessage)

\* C11: in a pre-commit or pre-push dispatch, a package whose commit-msg
\* pattern the last commit message does not match has none of its tasks
\* launched, and the process does not end with exit code 0.
C11_CommitMsgGate ==
  operation \in {"pre-commit", "pre-push"} =>
    \A i \in 1..Len(repo) :
      MsgRejected(i) =>
        /\ ~PkgStarted(PkgName(i))
        /\ pc = "exit" => exitCode # 0

(***************************************************************************)
(* Library functions called on their own: arg holds the arguments, ret     *)
(* what the calls have returned; the dispatcher is not running.            *)
(***************************************************************************)
dispatcher ==
  <<operation, repo, git, pc, idx, input, configs, chains, cwd, exitCode, fatal, console>>

NotDispatching ==
  /\ operation = "post-commit"
  /\ repo = <<>>
  /\ git = BaseGit
  /\ pc = "exit"
  /\ idx = 1
  /\ input = <<>>
  /\ configs = <<>>
  /\ chains = <<>>
  /\ cwd = Resolve(DirOf(1))
  /\ exitCode = 0
  /\ fatal = "none"
  /\ console = {}

(***************************************************************************)
(* lib/utils.js: buildFilePattern(config) and the RegExp object it returns,*)
(* applied as fileMatch applies it: filePattern.exec(path).                *)
(***************************************************************************)
MaxBuilds == 2
MaxExecs == 2

Html == <<"h", "t", "m", "l">>

\* restrictions as a package.json can declare them: absent, or with each of
\* fileTypes and folders absent, empty or listing entries
PatternRestrictions ==
  {None} \cup
  {Some(r) : r \in [fileTypes : {None, Some(<<>>), Some(<<Js>>), Some(<<Js, Html>>)},
                    folders : {None, Some(<<>>), Some(<<<<"a">>>>)}]}

PatternConfigs ==
  [pkg : {Package(DirOf(i)) : i \in 1..MaxPkgs}, restrictions : PatternRestrictions]

\* file paths as `git diff --name-only` lists them, trimmed
PatternPaths ==
  { <<>>,
    <<"a", "b">>,
    <<"x", ".", "j", "s">>,
    <<"x", ".", "h", "t", "m", "l">>,
    <<"x", ".", "j", "s", "o", "n">>,
    <<"x", ".", "j", "s", ".", "b", "a", "k">>,
    <<"a", "/", "x", ".", "j", "s">>,
    <<"b", "a", "/", "x", ".", "j", "s">>,
    <<"b", "/", "a", "/", "x", ".", "j", "s">> }

\* flags that would make exec resume at lastIndex
PatternFlagsGlobal == {"g", "i"}

\* the flags of `new RegExp(pattern, 'i')`
PatternFlags == {"i"}

Max(S) == CHOOSE m \in S : \A n \in S : n <= m
Min(S) == CHOOSE m \in S : \A n \in S : m <= n

\* RegExp.prototype.exec on the object R = [re, flags, lastIndex]: the search
\* starts at lastIndex under the 'g' flag and at 0 without it; under 'g' a
\* match leaves lastIndex at its end (the quantifiers are greedy) and a
\* failure resets it to 0; without 'g' lastIndex is not written
RegExpExec(R, s) ==
  LET global == "g" \in R.flags
      start == IF global THEN R.lastIndex ELSE 0
      starts == {i \in start..Len(s) : Ends(R.re, s, i) # {}}
      found == starts # {}
  IN [found |-> found,
      lastIndex |-> IF ~global THEN R.lastIndex
                    ELSE IF found THEN Max(Ends(R.re, s, Min(starts)))
                    ELSE 0]

InitPattern ==
  /\ NotDispatching
  /\ arg \in [config : PatternConfigs, path : PatternPaths]
  /\ ret = [config |-> arg.config, patterns |-> <<>>, answers |-> {}]

\* one call of buildFilePattern(config): it reads config and writes nothing
\* to it
BuildFilePattern ==
  /\ Len(ret.patterns) < MaxBuilds
  /\ ret' = [ret EXCEPT !.patterns =
               Append(@, [re |-> buildFilePattern(ret.config), flags |-> PatternFlags,
                          lastIndex |-> 0, execs |-> 0])]
  /\ UNCHANGED arg
  /\ UNCHANGED dispatcher

\* one filePattern.exec(path) on the p-th pattern built
ExecFilePattern(p) ==
  /\ p \in 1..Len(ret.patterns)
  /\ ret.patterns[p].execs < MaxExecs
  /\ LET R == ret.patterns[p]
         r == RegExpExec(R, arg.path)
     IN ret' = [ret EXCEPT
          !.patterns[p].lastIndex = r.lastIndex,
          !.patterns[p].execs = @ + 1,
          !.answers = @ \cup {[p |-> p, n |-> R.execs + 1, found |-> r.found]}]
  /\ UNCHANGED arg
  /\ UNCHANGED dispatcher

NextPattern ==
  \/ BuildFilePattern
  \/ \E p \in 1..MaxBuilds : ExecFilePattern(p)

SpecPattern == InitPattern /\ [][NextPattern]_vars

(***************************************************************************)
(* Properties of the file pattern.                                         *)
(***************************************************************************)
FileTypesOf(config) ==
  IF IsSome(config.restrictions) /\ IsSome(Val(config.restrictions).fileTypes)
  THEN Val(Val(config.restrictions).fileTypes) ELSE <<>>

FoldersOf(config) ==
  IF IsSome(config.restrictions) /\ IsSome(Val(config.restrictions).folders)
  THEN Val(Val(config.restrictions).folders) ELSE <<>>

\* path ends with '.' followed by ext, letter case aside
EndsWithExt(path, ext) ==
  /\ Len(path) >= Len(ext) + 1
  /\ path[Len(path) - Len(ext)] = "."
  /\ \A j \in 1..Len(ext) : Fold(path[Len(path) - Len(ext) + j]) = Fold(ext[j])

\* C12: with a non-empty fileTypes list the predicate accepts a path only if
\* the path ends with '.' followed by one of the listed extensions.
C12_ExtensionSoundness ==
  \A a \in ret.answers :
    (Len(FileTypesOf(arg.config)) > 0 /\ a.found) =>
      \E k \in 1..Len(FileTypesOf(arg.config)) :
        EndsWithExt(arg.path, FileTypesOf(arg.config)[k])

\* path is name.ext: a non-empty name without separator, '.', the extension
PlainNameExt(path, ext) ==
  /\ EndsWithExt(path, ext)
  /\ Len(path) > Len(ext) + 1
  /\ \A j \in 1..Len(path) : path[j] # "/"

\* C13: with fileTypes e1..en and no folders, the predicate accepts the plain
\* path name.ei for every listed extension ei, not only the last.
C13_ExtensionCompleteness ==
  \A a \in ret.answers :
    (/\ Len(FoldersOf(arg.config)) = 0
     /\ \E k \in 1..Len(FileTypesOf(arg.config)) :
          PlainNameExt(arg.path, FileTypesOf(arg.config)[k]))
    => a.found

\* where the optional package-relative prefix can end in path: nowhere (0),
\* or after a leading <anything><relative>/
PrefixEnds(config, path) ==
  LET rel == config.pkg.relative
      relative == IF Len(rel) > 0 /\ rel[Len(rel)] = "/"
                  THEN SubSeq(rel, 1, Len(rel) - 1) ELSE rel
  IN {0} \cup Ends(Cat(<<Plus(Dot)>> \o Source(relative) \o <<Chr("/")>>), path, 0)

\* C14: with a non-empty folders list the predicate accepts a path only if,
\* after the optional package-relative prefix, the path starts with a listed
\* folder followed by the separator.
C14_FolderRestriction ==
  \A a \in ret.answers :
    (Len(FoldersOf(arg.config)) > 0 /\ a.found) =>
      \E k \in PrefixEnds(arg.config, arg.path), f \in 1..Len(FoldersOf(arg.config)) :
        IsPrefixAt(NormalizeFolder(FoldersOf(arg.config)[f]), arg.path, k + 1)

EmptyRestrictions == Some([fileTypes |-> Some(<<>>), folders |-> Some(<<>>)])

\* C15: restrictions {fileTypes: [], folders: []} behave as no restrictions:
\* the predicate accepts every non-empty path, as the predicate built
\* without restrictions does.
C15_EmptyRestrictions ==
  \A a \in ret.answers :
    arg.config.restrictions = EmptyRestrictions =>
      /\ Len(arg.path) > 0 => a.found
      /\ a.found = RegExec(buildFilePattern([arg.config EXCEPT !.restrictions = None]),
                           arg.path)

\* C16: the predicates built from one configuration agree on the path, every
\* application of one predicate to the path gives the same answer, and the
\* configuration is as it was before the predicates were built.
C16_MatcherIdempotence ==
  /\ \A a, b \in ret.answers : a.found = b.found
  /\ ret.config = arg.config

\* two predicates built from a restricted configuration, each applied twice
\* to a path it accepts
C16_Witness ==
  /\ Len(ret.patterns) >= 2
  /\ \A p \in 1..2 : ret.patterns[p].execs >= 2
  /\ Len(FileTypesOf(arg.config)) > 0
  /\ \E a \in ret.answers : a.found

(***************************************************************************)
(* src/main.js: mapPackageConfig(pkg) called on its own, with the          *)
(* package.json that `require` finds in the package's directory.           *)
(***************************************************************************)
\* a package.json on disk: text that parses to a manifest, or text that is
\* not JSON
ManifestFiles ==
  {[parses |-> TRUE, json |-> m] : m \in Manifests \cup {Some(c) : c \in MsgSections}}
  \cup {[parses |-> FALSE, json |-> None]}

\* the first line of mapPackageConfig: require(...) throws a SyntaxError for
\* a file that is not JSON, and returns the parsed manifest otherwise
requireManifest(file) ==
  IF file.parses
  THEN [throws |-> "none", json |-> file.json]
  ELSE [throws |-> "SyntaxError", json |-> None]

InitConfig ==
  /\ NotDispatching
  /\ arg \in [pkg : {Package(DirOf(i)) : i \in 1..MaxPkgs}, file : ManifestFiles]
  /\ ret = [at |-> "require", throws |-> "none", json |-> None, config |-> <<>>]

RequireManifest ==
  /\ ret.at = "require"
  /\ LET r == requireManifest(arg.file)
     IN ret' = [ret EXCEPT !.at = IF r.throws = "none" THEN "map" ELSE "done",
                           !.throws = r.throws,
                           !.json = r.json]
  /\ UNCHANGED arg
  /\ UNCHANGED dispatcher

\* the rest of mapPackageConfig, on the manifest require returned
MapSection ==
  /\ ret.at = "map"
  /\ LET r == mapPackageConfig(arg.pkg, ret.json)
     IN ret' = [ret EXCEPT !.at = "done", !.throws = r.throws, !.config = r.config]
  /\ UNCHANGED arg
  /\ UNCHANGED dispatcher

NextConfig ==
  \/ RequireManifest
  \/ MapSection

SpecConfig == InitConfig /\ [][NextConfig]_vars

\* the section the manifest declares, when it parses and has one
Declared == arg.file.parses /\ IsSome(arg.file.json)

\* C17: the configuration mapPackageConfig returns has enabled = true when
\* the section omits "enabled", and the declared value when it is present.
C17_EnabledDefault ==
  (ret.at = "done" /\ Declared) =>
    /\ ret.throws = "none"
    /\ ret.config.enabled =
         IF IsSome(Val(arg.file.json).enabled)
         THEN Val(Val(arg.file.json).enabled)
         ELSE TRUE

\* a configuration returned for a section without "enabled"
C17_Witness ==
  /\ ret.at = "done"
  /\ Declared
  /\ ~IsSome(Val(arg.file.json).enabled)
  /\ ret.throws = "none"

\* C18: a manifest without the section and a manifest that cannot be parsed
\* both make mapPackageConfig fail with NoConfigError, and it fails with no
\* other kind of error.
C18_OnlyNoConfig ==
  ret.at = "done" =>
    /\ ~Declared => ret.throws = "NoConfigError"
    /\ ret.throws \in {"none", "NoConfigError"}

(***************************************************************************)
(* lib/utils.js: read(path) and scandir(dir, filter) over a directory      *)
(* tree, and src/main.js: findAllPackages() on what scandir returns.       *)
(* A node of the tree is [name, kind, readable, entries]; entries is what  *)
(* fs.readdirSync lists, in its order.                                     *)
(***************************************************************************)
PackageJson == <<"p", "a", "c", "k", "a", "g", "e", ".", "j", "s", "o", "n">>
PackageJsonBak == PackageJson \o <<".", "b", "a", "k">>
IndexJs == <<"i", "n", "d", "e", "x", ".", "j", "s">>
NodeModules == <<"n", "o", "d", "e", "_", "m", "o", "d", "u", "l", "e", "s">>

File(name) == [name |-> name, kind |-> "file", readable |-> TRUE, entries |-> <<>>]
Dir(name, readable, entries) ==
  [name |-> name, kind |-> "dir", readable |-> readable, entries |-> entries]

\* the files of one directory
Listings ==
  { <<>>,
    <<File(IndexJs)>>,
    <<File(PackageJson)>>,
    <<File(PackageJsonBak)>>,
    <<File(PackageJson), File(PackageJsonBak)>>,
    <<File(IndexJs), File(PackageJson)>> }

\* the sub-directory a/: readable with some files, or not readable
SubDirs ==
  {Dir(<<Letters[1]>>, TRUE, l) : l \in Listings}
  \cup {Dir(<<Letters[1]>>, FALSE, <<File(PackageJson)>>)}

Installed == Dir(NodeModules, TRUE, <<File(PackageJson)>>)

\* the repository's root directory: its sub-directories, then its files
Trees ==
  {Dir(Root, TRUE, subs \o l) :
     subs \in {<<>>, <<Installed>>} \cup {<<d>> : d \in SubDirs}
              \cup {<<d, Installed>> : d \in SubDirs},
     l \in Listings}

\* the filter findAllPackages passes to scandir
PackageFilter == [pattern |-> <<PackageJson>>, exclude |-> <<NodeModules>>]

\* new RegExp(`(${list.join('|')})`, 'i')
FilterRegExp(list) ==
  IF Len(list) = 0 THEN Cat(<<>>)
  ELSE Alt([k \in 1..Len(list) |-> Cat(Source(list[k]))])

\* read(path) of a directory: fs.readdirSync throws EACCES when the
\* directory cannot be read
read(node) ==
  IF node.readable
  THEN [throws |-> "none", value |-> node.entries]
  ELSE [throws |-> "EACCES", value |-> <<>>]

RECURSIVE recursive(_, _, _, _)
RECURSIVE forEachSub(_, _, _, _, _)

\* scandir's inner recursive(dir, list): an exception of read leaves it
recursive(dir, node, list, filter) ==
  LET r == read(node)
  IN IF r.throws # "none"
     THEN [throws |-> r.throws, list |-> list]
     ELSE forEachSub(dir, r.value, 1, list, filter)

\* read(dir).forEach(sub => ...) from the k-th entry on
forEachSub(dir, entries, k, list, filter) ==
  IF k > Len(entries)
  THEN [throws |-> "none", list |-> list]
  ELSE LET sub == entries[k]
       IN IF sub.kind = "dir" /\ ~RegExec(FilterRegExp(filter.exclude), sub.name)
          THEN LET r == recursive(dir \o sub.name \o <<"/">>, sub, list, filter)
               IN IF r.throws # "none" THEN r
                  ELSE forEachSub(dir, entries, k + 1, r.list, filter)
          ELSE IF RegExec(FilterRegExp(filter.pattern), sub.name)
          THEN forEachSub(dir, entries, k + 1, Append(list, dir), filter)
          ELSE forEachSub(dir, entries, k + 1, list, filter)

scandir(dir, node, filter) ==
  recursive(IF dir[Len(dir)] = "/" THEN dir ELSE dir \o <<"/">>, node, <<>>, filter)

\* findAllPackages on the tree under the root: scandir, .filter(Boolean), .map
findAllPackagesIn(tree) ==
  LET r == scandir(Root, tree, PackageFilter)
      dirs == SelectSeq(r.list, LAMBDA dir : Len(dir) > 0)
  IN [throws |-> r.throws,
      packages |-> IF r.throws # "none" THEN <<>>
                   ELSE [k \in 1..Len(dirs) |-> Package(dirs[k])]]

InitScan ==
  /\ NotDispatching
  /\ arg \in Trees
  /\ ret = None

FindPackages ==
  /\ ret = None
  /\ ret' = Some(findAllPackagesIn(arg))
  /\ UNCHANGED arg
  /\ UNCHANGED dispatcher

NextScan == FindPackages

SpecScan == InitScan /\ [][NextScan]_vars

\* the directories outside node_modules that hold a file named package.json
RECURSIVE ManifestDirs(_, _)
ManifestDirs(dir, node) ==
  (IF \E k \in 1..Len(node.entries) :
        node.entries[k].kind = "file" /\ node.entries[k].name = PackageJson
   THEN {dir} ELSE {})
  \cup UNION {ManifestDirs(dir \o node.entries[k].name \o <<"/">>, node.entries[k]) :
                k \in {j \in 1..Len(node.entries) :
                         /\ node.entries[j].kind = "dir"
                         /\ node.entries[j].readable
                         /\ node.entries[j].name # NodeModules}}

RECURSIVE Unreadable(_)
Unreadable(node) ==
  node.kind = "dir" /\
    (~node.readable \/ \E k \in 1..Len(node.entries) :
                         node.entries[k].name # NodeModules /\ Unreadable(node.entries[k]))

\* C19: discovery returns exactly one Package per directory that holds a
\* package.json: no directory twice, none without a package.json.
C19_OnePackagePerManifest ==
  (IsSome(ret) /\ Val(ret).throws = "none") =>
    LET packages == Val(ret).packages
    IN /\ \A j, k \in 1..Len(packages) : packages[j].absolute = packages[k].absolute => j = k
       /\ {packages[k].absolute : k \in 1..Len(packages)} =
            {Resolve(dir) : dir \in ManifestDirs(Root \o <<"/">>, arg)}

\* C20: a directory that cannot be read makes discovery raise no error and
\* contributes no package.
C20_UnreadableIsEmpty ==
  (IsSome(ret) /\ Unreadable(arg)) =>
    /\ Val(ret).throws = "none"
    /\ {Val(ret).packages[k].absolute : k \in 1..Len(Val(ret).packages)} =
         {Resolve(dir) : dir \in ManifestDirs(Root \o <<"/">>, arg)}

\* C21: every task command that has been launched was started in the
\* directory of the package that declares it, whatever other packages' tasks
\* were launched before it or are running beside it.
C21_TaskCwd ==
  \A c \in Chains : \A k \in 1..Len(chains[c].tasks) :
    chains[c].tasks[k].st # "waiting" =>
      chains[c].tasks[k].dir = chains[c].config.pkg.absolute

\* tasks of two packages in different directories running side by side
C21_Witness ==
  \E c \in Chains, d \in Chains :
    /\ chains[c].config.pkg.absolute # chains[d].config.pkg.absolute
    /\ Running(c)
    /\ Running(d)
    /\ cwd = chains[d].config.pkg.absolute

\* C27: in a pre-commit or pre-push dispatch with candidate files, a package
\* that is not skipped and that the file filter drops is logged as "no file matches"
\* (NoFileError), and a package without tasks for the event is logged as "no
\* tasks" (NoTaskError), not as any other error.
C27_DistinctSoftOutcomes ==
  FileSensitive(operation) =>
    /\ pc \in {"forEach", "drain", "loop"} =>
         \A i \in 1..Len(repo) :
           \/ \E k \in 1..Len(input) : input[k].pkg.name = PkgName(i)
           \/ ~NotSkipped(i)
           \/ Len(IF operation = "pre-commit" THEN git.staged ELSE git.diff) = 0
           \/ Printed("NoFileError", PkgName(i))
    /\ \A m \in console : m.kind # "TypeError NoTaskError"

\* the errors run raises while it resolves and filters the packages
FilterErrors == {"NoConfigError", "TypeError", "NoCommitsError"}

\* C30: run is two-phase.  A task is launched only after config resolution,
\* the skip check and file matching are over for every package and every
\* chain has been created; a run that an error ended while resolving or
\* filtering has launched no task.
C30_TwoPhase ==
  /\ \A c \in Chains : Started(c) =>
       /\ pc \in {"drain", "loop", "exit"}
       /\ Len(chains) = Len(input)
  /\ fatal \in FilterErrors => \A c \in Chains : ~Started(c)

\* a run ended by the missing section of the second package, the first
\* package having a task to run
C30_Witness ==
  /\ pc = "exit"
  /\ fatal = "NoConfigError"
  /\ Len(repo) >= 2
  /\ IsSome(repo[1])
  /\ NotSkipped(1)
  /\ Val(repo[1]).hook = Some(<<1>>)
  /\ ~IsSome(repo[2])

(***************************************************************************)
(* src/install.js: the configuration the installer writes, and dispatches  *)
(* of src/main.js over packages the installer has visited.                 *)
(***************************************************************************)
\* the section the installer builds, as src/main.js reads it: enabled is
\* true; 'skip-users' sits inside restrictions, so config['skip-users'] is
\* undefined; there is no "commit-msg"; every hook entry is {tasks: []}, an
\* object whose .length is undefined, as falsy as the length of an empty list
DefaultSection ==
  [enabled |-> Some(TRUE),
   skipUsers |-> None,
   restrictions |-> Some([fileTypes |-> Some(<<>>), folders |-> Some(<<>>)]),
   commitMsg |-> None,
   hook |-> Some(<<>>)]

\* the installer: a package.json without the section gets the default one,
\* any other is left as it is
installDefault(json) == IF IsSome(json) THEN json ELSE Some(DefaultSection)

ConfiguredSections ==
  [enabled : {Some(TRUE)},
   skipUsers : {Some(<<"jenkins">>)},
   restrictions : {None},
   commitMsg : {None},
   hook : {Some(l) : l \in TaskLists}]

InstalledRepos ==
  UNION {[1..n -> {installDefault(m) : m \in {None} \cup {Some(c) : c \in ConfiguredSections}}] :
           n \in 1..MaxPkgs}

InitInstalled ==
  /\ operation \in HookEvents
  /\ repo \in InstalledRepos
  /\ git \in GitStates(operation)
  /\ pc = "find"
  /\ idx = 1
  /\ input = <<>>
  /\ configs = <<>>
  /\ chains = <<>>
  /\ cwd = Resolve(DirOf(1))
  /\ exitCode = 0
  /\ fatal = "none"
  /\ console = {}
  /\ arg = <<>>
  /\ ret = <<>>

SpecInstalled == InitInstalled /\ [][Next]_vars

\* C29: a dispatch over packages that carry exactly the installer's default
\* configuration raises no fatal error and does not exit non-zero, for every
\* hook event.
C29_DefaultConfigAccepted ==
  (\A i \in 1..Len(repo) : repo[i] = Some(DefaultSection)) =>
    /\ fatal = "none"
    /\ exitCode = 0

(***************************************************************************)
(* lib/handlers.js, list form: errorCallback(errors) called on its own.    *)
(* JavaScript values are tagged: an error object, or a boolean.            *)
(***************************************************************************)
MaxErrors == 3

SoftKinds == {"NoConfigError", "NoTaskError", "NoFileError", "NoCommitsError"}
ErrorKinds == SoftKinds \cup {"RunTaskError", "TypeError"}

ErrorObject(kind) == [type |-> "object", kind |-> kind]
Boolean(b) == [type |-> "boolean", b |-> b]

\* e instanceof C, for the constructor named kind
InstanceOf(e, kind) == Boolean(e.type = "object" /\ e.kind = kind)

\* ===, as switch compares its operand with each case value: values of
\* different types are never equal
StrictEquals(x, y) == x.type = y.type /\ x = y

\* switch (e) { case (e instanceof NoConfigError): ... default: }: the label
\* the switch jumps to
SwitchLabel(e) ==
  IF \E kind \in SoftKinds : StrictEquals(e, InstanceOf(e, kind))
  THEN "case" ELSE "default"

ErrorLists == UNION {[1..n -> {ErrorObject(k) : k \in ErrorKinds}] : n \in 0..MaxErrors}

InitErrors ==
  /\ NotDispatching
  /\ arg \in ErrorLists
  /\ ret = [idx |-> 1, exit |-> None, info |-> <<>>]

\* one call of the errors.forEach callback
ErrorsForEach ==
  /\ ret.exit = None
  /\ ret.idx <= Len(arg)
  /\ LET e == arg[ret.idx]
     IN IF SwitchLabel(e) = "case"
        THEN ret' = [ret EXCEPT !.idx = @ + 1, !.info = Append(@, e.kind)]
        ELSE ret' = [ret EXCEPT !.exit = Some(1)]
  /\ UNCHANGED arg
  /\ UNCHANGED dispatcher

\* after forEach: successCallback(), which ends in process.exit(0)
ErrorsSuccessCallback ==
  /\ ret.exit = None
  /\ ret.idx > Len(arg)
  /\ ret' = [ret EXCEPT !.exit = Some(0)]
  /\ UNCHANGED arg
  /\ UNCHANGED dispatcher

NextErrors ==
  \/ ErrorsForEach
  \/ ErrorsSuccessCallback

SpecErrors == InitErrors /\ [][NextErrors]_vars

\* C25: when every error of the list is of a soft kind, errorCallback does
\* not end the process with a non-zero code, and once it has ended the
\* process every error of the list has been logged as informational.
C25_SoftErrorsProceed ==
  (\A k \in 1..Len(arg) : arg[k].kind \in SoftKinds) =>
    /\ ret.exit # Some(1)
    /\ IsSome(ret.exit) => ret.info = [k \in 1..Len(arg) |-> arg[k].kind]

(***************************************************************************)
(* lib/git.js: getRootDir called on its own, MaxCalls times in one         *)
(* process, in both variants of the file: with the module-level cache      *)
(* (let rootDir) and without it (const rootDir).  arg holds the variant,   *)
(* __dirname as moduleDir and the directories that have a .git entry; ret  *)
(* holds the module variable rootDir, the call stack (the dir of each      *)
(* frame), the value or exception travelling down the stack, and what the  *)
(* calls have returned.                                                    *)
(***************************************************************************)
MaxStack == 6
MaxCalls == 2

DotGit == <<".", "g", "i", "t">>
CouldNotFind == "Could not find git repository"

\* the directories from the file system's root down to the module's
WalkDirs ==
  << <<"/">>,
     Root,
     Root \o <<"/", Letters[1]>>,
     Root \o <<"/", Letters[1], "/", Letters[2]>> >>

RECURSIVE LastSlash(_)
LastSlash(p) ==
  IF Len(p) = 0 THEN 0
  ELSE IF p[Len(p)] = "/" THEN Len(p)
  ELSE LastSlash(SubSeq(p, 1, Len(p) - 1))

\* path.dirname: the root directory is its own parent
dirname(p) ==
  LET q == Resolve(p)
      k == LastSlash(q)
  IN IF k = 0 THEN <<".">>
     ELSE IF k = 1 THEN <<"/">>
     ELSE SubSeq(q, 1, k - 1)

\* utils.read(dir).filter(f => f === '.git')[0]
gitEntry(dir) == IF dir \in arg.git THEN Some(DotGit) ELSE None

\* the exception that leaves a frame's catch block after it caught e: the
\* block builds the 'Could not find git repository' Error whatever e is,
\* and at the stack's limit building it can overflow the stack again
catchBlock(e, depth) ==
  {[kind |-> "throw", value |-> CouldNotFind]}
  \cup (IF depth >= MaxStack THEN {[kind |-> "throw", value |-> "RangeError"]} ELSE {})

InTry == [kind |-> "run", value |-> <<>>]

InitRoot ==
  /\ NotDispatching
  /\ arg \in [variant : {"cached", "plain"},
              moduleDir : {WalkDirs[k] : k \in 1..Len(WalkDirs)},
              git : SUBSET {WalkDirs[k] : k \in 1..Len(WalkDirs)}]
  /\ ret = [rootDir |-> None, stack |-> <<>>, flow |-> InTry, results |-> <<>>]

\* a caller's getRootDir(): the cached value when there is one, else a
\* first frame with dir = __dirname
GetRootDir ==
  /\ ret.stack = <<>>
  /\ Len(ret.results) < MaxCalls
  /\ IF arg.variant = "cached" /\ IsSome(ret.rootDir)
     THEN ret' = [ret EXCEPT !.results = Append(@, [kind |-> "return", value |-> Val(ret.rootDir)])]
     ELSE ret' = [ret EXCEPT !.stack = <<arg.moduleDir>>, !.flow = InTry]
  /\ UNCHANGED arg
  /\ UNCHANGED dispatcher

\* the try block of the top frame: read dir, keep the .git entry in
\* rootDir, return dir or call getRootDir(dirname(dir)); the call throws
\* RangeError when the stack is full
TryBlock ==
  /\ ret.stack # <<>>
  /\ ret.flow.kind = "run"
  /\ LET dir == ret.stack[Len(ret.stack)]
         found == gitEntry(dir)
         cache == IF arg.variant = "cached" THEN found ELSE ret.rootDir
     IN IF IsSome(found)
        THEN ret' = [ret EXCEPT !.rootDir = cache,
                                !.flow = [kind |-> "return", value |-> dir]]
        ELSE IF Len(ret.stack) >= MaxStack
        THEN ret' = [ret EXCEPT !.rootDir = cache,
                                !.flow = [kind |-> "throw", value |-> "RangeError"]]
        ELSE ret' = [ret EXCEPT !.rootDir = cache,
                                !.stack = Append(@, dirname(dir))]
  /\ UNCHANGED arg
  /\ UNCHANGED dispatcher

\* the top frame returns the value to its caller
Return ==
  /\ ret.stack # <<>>
  /\ ret.flow.kind = "return"
  /\ LET rest == SubSeq(ret.stack, 1, Len(ret.stack) - 1)
     IN IF rest = <<>>
        THEN ret' = [ret EXCEPT !.stack = rest, !.flow = InTry,
                                !.results = Append(@, ret.flow)]
        ELSE ret' = [ret EXCEPT !.stack = rest]
  /\ UNCHANGED arg
  /\ UNCHANGED dispatcher

\* the catch block of the top frame catches the exception and throws
CatchBlock ==
  /\ ret.stack # <<>>
  /\ ret.flow.kind = "throw"
  /\ LET rest == SubSeq(ret.stack, 1, Len(ret.stack) - 1)
     IN \E thrown \in catchBlock(ret.flow.value, Len(ret.stack)) :
          IF rest = <<>>
          THEN ret' = [ret EXCEPT !.stack = rest, !.flow = InTry,
                                  !.results = Append(@, thrown)]
          ELSE ret' = [ret EXCEPT !.stack = rest, !.flow = thrown]
  /\ UNCHANGED arg
  /\ UNCHANGED dispatcher

NextRoot ==
  \/ GetRootDir
  \/ TryBlock
  \/ Return
  \/ CatchBlock

SpecRoot == InitRoot /\ [][NextRoot]_vars

\* no directory from __dirname up to the root has a .git entry
RECURSIVE NoGitFrom(_)
NoGitFrom(dir) ==
  /\ dir \notin arg.git
  /\ dirname(dir) = dir \/ NoGitFrom(dirname(dir))

\* C26: getRootDir ends in every case: the walk goes up one directory per
\* call and stops at the file system's root, so no call of getRootDir is made
\* for the directory the caller is already in, and when no directory from
\* the start directory up to the root has a .git entry the call throws the
\* 'Could not find git repository' error.
C26_RootWalkStops ==
  /\ \A k \in 2..Len(ret.stack) : ret.stack[k] # ret.stack[k - 1]
  /\ NoGitFrom(arg.moduleDir) =>
       \A k \in 1..Len(ret.results) :
         ret.results[k] = [kind |-> "throw", value |-> CouldNotFind]

\* C28: with the cached variant every call of getRootDir in one process
\* returns what the first call returned, the directory that has the .git
\* entry.
C28_CachedRootDir ==
  arg.variant = "cached" =>
    \A k \in 1..Len(ret.results) :
      ret.results[k].kind = "return" =>
        /\ ret.results[k].value = ret.results[1].value
        /\ ret.results[k].value \in arg.git

(***************************************************************************)
(* src/npm-git-hooks.js: the synchronous dispatcher, run(operation,        *)
(* fileList).  arg holds the packages' manifests, the fileList argument    *)
(* and the handlers module that is loaded; ret holds where run is, the     *)
(* loop's i, the forEach's position in config.tasks, the errors array,     *)
(* the commands that were executed, the working directory, the process's   *)
(* exit code once it has ended, and the lines printed.                     *)
(***************************************************************************)
\* the "npm-git-hooks" section as this dispatcher reads it: enabled,
\* restrictions with 'skip-users', and config[operation].tasks
SyncSections ==
  [enabled : BOOLEAN,
   restrictions : [skipUsers : {<<>>, <<user>>}, fileTypes : {None}, folders : {None}],
   tasks : {<<1>>}]
  \cup
  [enabled : {TRUE},
   restrictions : [skipUsers : {<<>>}, fileTypes : {None, Some(<<Js>>)}, folders : {None}],
   tasks : {<<1>>}]
  \cup
  [enabled : {TRUE},
   restrictions : [skipUsers : {<<>>}, fileTypes : {None}, folders : {None}],
   tasks : TaskLists]

SyncRepos == UNION {[1..n -> {None} \cup {Some(c) : c \in SyncSections}] : n \in 1..MaxPkgs}

\* the fileList argument: a boolean, or the list of changed files
Array(list) == [type |-> "array", list |-> list]
FileLists == {Boolean(TRUE), Boolean(FALSE), Array(<<FileB>>)}

\* the two list-form errorCallback(errors) of the repository
HandlersModules == {"lib/handlers.js", "part_001"}

\* shell.exec(task) run synchronously returns the child's exit code; "throws"
\* is process.chdir or shell.exec throwing
ExecOutcomes == {"zero", "nonzero", "throws"}

\* handlers.errorCallback([e]): whether it ends the process, and the code
errorCallbackOf(e) ==
  IF arg.handlers = "lib/handlers.js"
  THEN (IF SwitchLabel(e) = "default"
        THEN [exits |-> TRUE, code |-> 1]
        ELSE [exits |-> TRUE, code |-> 0])
  ELSE (IF e.kind \in SoftKinds
        THEN [exits |-> FALSE, code |-> 0]
        ELSE [exits |-> TRUE, code |-> 1])

InitSync ==
  /\ NotDispatching
  /\ arg \in [packages : SyncRepos, fileList : FileLists, handlers : HandlersModules]
  /\ ret = [pc |-> "run", packages |-> <<>>, i |-> 1, k |-> 1, errors |-> <<>>,
            ran |-> <<>>, cwd |-> Root, exit |-> None, log |-> {}]

\* run up to the loop: findAllPackages(repoPath)
SyncFindAllPackages ==
  /\ ret.pc = "run"
  /\ ret' = [ret EXCEPT !.pc = "for",
                        !.packages = [i \in 1..Len(arg.packages) |-> PackageAt[i]]]
  /\ UNCHANGED arg
  /\ UNCHANGED dispatcher

\* the catch block of the loop for an error that is not a RunTaskError
SyncCatch(kind, name) ==
  LET e == ErrorObject(kind)
      r == errorCallbackOf(e)
  IN ret' = [ret EXCEPT !.errors = Append(@, kind),
                        !.log = @ \cup {[kind |-> kind, pkg |-> name]},
                        !.pc = IF r.exits THEN "exit" ELSE "for",
                        !.exit = IF r.exits THEN Some(r.code) ELSE None,
                        !.i = IF r.exits THEN @ ELSE @ + 1]

\* one iteration of the loop up to the call of runTasks: getPackageConfig,
\* the skip-users and enabled tests, whose return leaves run, the file
\* pattern and runTasks' choice
SyncPackage ==
  /\ ret.pc = "for"
  /\ ret.i <= Len(ret.packages)
  /\ LET pkg == ret.packages[ret.i]
         json == arg.packages[ret.i]
         config == Val(json)
         filePattern == buildFilePattern([pkg |-> pkg,
                          restrictions |-> Some([fileTypes |-> config.restrictions.fileTypes,
                                                 folders |-> config.restrictions.folders])])
         files == IF arg.fileList.type = "boolean"
                  THEN arg.fileList.b
                  ELSE \E f \in 1..Len(arg.fileList.list) :
                         RegExec(filePattern, Trim(arg.fileList.list[f]))
     IN IF ~IsSome(json)
        THEN SyncCatch("NoConfigError", pkg.name)
        ELSE IF IndexOf(config.restrictions.skipUsers, user) >= 0
        THEN ret' = [ret EXCEPT !.log = @ \cup {[kind |-> "skip-user", pkg |-> pkg.name]},
                                !.pc = "exit", !.exit = Some(0)]
        ELSE IF ~config.enabled
        THEN ret' = [ret EXCEPT !.log = @ \cup {[kind |-> "disabled", pkg |-> pkg.name]},
                                !.pc = "exit", !.exit = Some(0)]
        ELSE IF files /\ Len(config.tasks) > 0
        THEN ret' = [ret EXCEPT !.pc = "forEach", !.k = 1]
        ELSE IF files
        THEN SyncCatch("NoTaskError", pkg.name)
        ELSE SyncCatch("NoFileError", pkg.name)
  /\ UNCHANGED arg
  /\ UNCHANGED dispatcher

\* runTask(task, pkg) for the next task of config.tasks.forEach: the exit
\* code of the command is not looked at; only an exception becomes a
\* RunTaskError, which run's catch block turns into process.exit(1)
SyncRunTask(outcome) ==
  /\ ret.pc = "forEach"
  /\ LET pkg == ret.packages[ret.i]
         tasks == Val(arg.packages[ret.i]).tasks
         last == ret.k = Len(tasks)
     IN IF outcome = "throws"
        THEN ret' = [ret EXCEPT !.cwd = pkg.absolute,
                                !.log = @ \cup {[kind |-> "RunTaskError", pkg |-> pkg.name]},
                                !.pc = "exit", !.exit = Some(1)]
        ELSE ret' = [ret EXCEPT !.cwd = pkg.absolute,
                                !.ran = Append(@, [pkg |-> ret.i, task |-> tasks[ret.k],
                                                   code |-> IF outcome = "zero" THEN 0 ELSE 1]),
                                !.k = IF last THEN 1 ELSE @ + 1,
                                !.i = IF last THEN @ + 1 ELSE @,
                                !.pc = IF last THEN "for" ELSE "forEach"]
  /\ UNCHANGED arg
  /\ UNCHANGED dispatcher

\* after the loop: successCallback(operation) when errors is empty, else run
\* returns and node ends with code 0
SyncAfterLoop ==
  /\ ret.pc = "for"
  /\ ret.i > Len(ret.packages)
  /\ ret' = [ret EXCEPT !.pc = "exit", !.exit = Some(0),
                        !.log = IF Len(ret.errors) = 0
                                THEN @ \cup {[kind |-> "success", pkg |-> <<>>]}
                                ELSE @]
  /\ UNCHANGED arg
  /\ UNCHANGED dispatcher

NextSync ==
  \/ SyncFindAllPackages
  \/ SyncPackage
  \/ \E outcome \in ExecOutcomes : SyncRunTask(outcome)
  \/ SyncAfterLoop

SpecSync == InitSync /\ [][NextSync]_vars

\* C22: in the synchronous dispatcher, once a task's command has exited
\* with a non-zero code no later task of that package is executed, and the
\* process ends with code 1.
C22_SyncFailFast ==
  \A j \in 1..Len(ret.ran) :
    ret.ran[j].code # 0 =>
      /\ \A l \in (j + 1)..Len(ret.ran) : ret.ran[l].pkg # ret.ran[j].pkg
      /\ IsSome(ret.exit) => ret.exit = Some(1)

\* package i passes every test of the loop and has tasks to run
SyncRunnable(i) ==
  /\ IsSome(arg.packages[i])
  /\ LET config == Val(arg.packages[i])
     IN /\ config.enabled
        /\ IndexOf(config.restrictions.skipUsers, user) < 0
        /\ config.restrictions.fileTypes = None
        /\ arg.fileList # Boolean(FALSE)
        /\ Len(config.tasks) > 0

\* C23: in the synchronous dispatcher, skipping a package (the user is in
\* its skip-users, or it is disabled) ends the work on that package only:
\* when the run has ended without an error, every later package that is
\* enabled, matching and has tasks has had its tasks run.
C23_SkipContinues ==
  \A i \in 1..Len(ret.packages) :
    /\ \E m \in ret.log : m.pkg = ret.packages[i].name /\ m.kind \in {"skip-user", "disabled"}
    /\ ret.exit = Some(0)
    => \A j \in (i + 1)..Len(ret.packages) :
         SyncRunnable(j) => \E l \in 1..Len(ret.ran) : ret.ran[l].pkg = j

(***************************************************************************)
(* The promise-returning dispatcher: run(operation, fileList) whose        *)
(* executor walks the packages with forEach.  arg.packages[i] is what      *)
(* getPackageConfig finds in the object require(pkg.absolute) returns:     *)
(* nothing, or the entry of the hook with enabled, restrictions and tasks. *)
(* ret is as for the synchronous dispatcher, with the promise's state.     *)
(***************************************************************************)
InitPromise ==
  /\ NotDispatching
  /\ arg \in [packages : SyncRepos, fileList : FileLists]
  /\ ret = [pc |-> "run", packages |-> <<>>, i |-> 1, k |-> 1, errors |-> <<>>,
            ran |-> <<>>, cwd |-> Root, exit |-> None, log |-> {},
            promise |-> "pending"]

\* run up to the forEach: findAllPackages(repoPath)
PromiseFindAllPackages ==
  /\ ret.pc = "run"
  /\ ret' = [ret EXCEPT !.pc = "packages",
                        !.packages = [i \in 1..Len(arg.packages) |-> PackageAt[i]]]
  /\ UNCHANGED arg
  /\ UNCHANGED dispatcher

\* the catch block of the callback for an error that is not a RunTaskError:
\* errors.push(e); return
PromiseCatch(kind, name, printed) ==
  ret' = [ret EXCEPT !.errors = Append(@, kind),
                     !.log = @ \cup printed \cup {[kind |-> kind, pkg |-> name]},
                     !.i = @ + 1]

\* the forEach callback for one package up to the call of runTasks: the
\* skip-users test returns from the callback, the enabled test only prints
PromisePackage ==
  /\ ret.pc = "packages"
  /\ ret.i <= Len(ret.packages)
  /\ LET pkg == ret.packages[ret.i]
         json == arg.packages[ret.i]
         config == Val(json)
         filePattern == buildFilePattern([pkg |-> pkg,
                          restrictions |-> Some([fileTypes |-> config.restrictions.fileTypes,
                                                 folders |-> config.restrictions.folders])])
         files == IF arg.fileList.type = "boolean"
                  THEN arg.fileList.b
                  ELSE \E f \in 1..Len(arg.fileList.list) :
                         RegExec(filePattern, Trim(arg.fileList.list[f]))
         printed == IF IsSome(json) /\ ~config.enabled
                    THEN {[kind |-> "disabled", pkg |-> pkg.name]} ELSE {}
     IN IF ~IsSome(json)
        THEN PromiseCatch("NoConfigError", pkg.name, {})
        ELSE IF IndexOf(config.restrictions.skipUsers, user) >= 0
        THEN ret' = [ret EXCEPT !.log = @ \cup {[kind |-> "skip-user", pkg |-> pkg.name]},
                                !.i = @ + 1]
        ELSE IF files /\ Len(config.tasks) > 0
        THEN ret' = [ret EXCEPT !.log = @ \cup printed, !.pc = "tasks", !.k = 1]
        ELSE IF files
        THEN PromiseCatch("NoTaskError", pkg.name, printed)
        ELSE PromiseCatch("NoFileError", pkg.name, printed)
  /\ UNCHANGED arg
  /\ UNCHANGED dispatcher

\* runTask(task, pkg) for the next task of config.tasks.forEach; an
\* exception becomes a RunTaskError and the callback's catch block calls
\* process.exit(1)
PromiseRunTask(outcome) ==
  /\ ret.pc = "tasks"
  /\ LET pkg == ret.packages[ret.i]
         tasks == Val(arg.packages[ret.i]).tasks
         last == ret.k = Len(tasks)
     IN IF outcome = "throws"
        THEN ret' = [ret EXCEPT !.cwd = pkg.absolute,
                                !.log = @ \cup {[kind |-> "RunTaskError", pkg |-> pkg.name]},
                                !.pc = "exit", !.exit = Some(1)]
        ELSE ret' = [ret EXCEPT !.cwd = pkg.absolute,
                                !.ran = Append(@, [pkg |-> ret.i, task |-> tasks[ret.k],
                                                   code |-> IF outcome = "zero" THEN 0 ELSE 1]),
                                !.k = IF last THEN 1 ELSE @ + 1,
                                !.i = IF last THEN @ + 1 ELSE @,
                                !.pc = IF last THEN "packages" ELSE "tasks"]
  /\ UNCHANGED arg
  /\ UNCHANGED dispatcher

\* after the forEach: reject(errors) or resolve(operation)
PromiseSettle ==
  /\ ret.pc = "packages"
  /\ ret.i > Len(ret.packages)
  /\ ret' = [ret EXCEPT !.pc = "settled",
                        !.promise = IF Len(ret.errors) > 0 THEN "rejected" ELSE "resolved"]
  /\ UNCHANGED arg
  /\ UNCHANGED dispatcher

NextPromise ==
  \/ PromiseFindAllPackages
  \/ PromisePackage
  \/ \E outcome \in ExecOutcomes : PromiseRunTask(outcome)
  \/ PromiseSettle

SpecPromise == InitPromise /\ [][NextPromise]_vars

\* C24: in the promise-returning dispatcher a package whose config has
\* enabled = false has none of its tasks executed.
C24_PromiseDisabledNeverRuns ==
  \A l \in 1..Len(ret.ran) : Val(arg.packages[ret.ran[l].pkg]).enabled

====
